---- MODULE Spec2Model ----
(***************************************************************************)
(* Model of marian's in-process gradient communicator                     *)
(* (Communicator / DefaultCommunicator, src/src/gpu/mblas/matrix.h).      *)
(*                                                                         *)
(* One DefaultCommunicator over graphs_.size() replicas.  Every replica   *)
(* owns a parameter value tensor and a gradient tensor of totalSize       *)
(* elements.  A public operation runs on the caller's thread; foreach     *)
(* starts one std::thread per replica index and joins them all.           *)
(*                                                                         *)
(* Memory is followed cell by cell.  All the tensor operations used here  *)
(* are column-wise (cell k of a view is computed from cell k of other     *)
(* views), so the model follows a window of columns of every buffer: all  *)
(* of them for a small tensor, the first and the last ones for a tensor   *)
(* too large to enumerate.  A cell that is not followed, or that lies     *)
(* outside its buffer, reads as Junk.                                     *)
(***************************************************************************)
EXTENDS Integers, Sequences, FiniteSets, Bags, TLC

\* ---------------------------------------------------------------- bounds
MaxGraphs == 3
MaxTotal == 4
TailCols == 1
MaxCalls == 2

\* float has a 24 bit significand: (float)graphs_.size() makes the division
\* of line 193 a single precision one
FloatBits == 24

\* parameter counts beyond 2^24, where int -> float rounds
BigTotals == {16777217}

Min(a, b) == IF a < b THEN a ELSE b
Max(a, b) == IF a > b THEN a ELSE b

RECURSIVE Pow2(_)
Pow2(e) == IF e = 0 THEN 1 ELSE 2 * Pow2(e - 1)

\* ------------------------------------------------- single precision floats
\* p/q (p >= 0, q > 0) rounded to the nearest integer, ties to even: the
\* IEEE-754 default rounding
RoundNE(p, q) ==
  LET f == p \div q
      r == p % q
  IN  IF 2 * r < q THEN f
      ELSE IF 2 * r > q THEN f + 1
      ELSE IF f % 2 = 0 THEN f ELSE f + 1

\* the least e >= 0 with n < 2^(FloatBits + e)
RECURSIVE ExpOver(_, _)
ExpOver(n, e) == IF n \div Pow2(e) < Pow2(FloatBits) THEN e ELSE ExpOver(n, e + 1)

\* (float)n for an int n >= 0: exact below 2^24, else rounded to a multiple
\* of the unit in the last place
IntToFloat(n) ==
  LET e == ExpOver(n, 0) IN RoundNE(n, Pow2(e)) * Pow2(e)

\* the least s >= 0 with x * 2^s >= n * 2^(FloatBits-1)   (x > 0)
RECURSIVE ScaleUp(_, _, _)
ScaleUp(x, n, s) ==
  IF x * Pow2(s) >= n * Pow2(FloatBits - 1) THEN s ELSE ScaleUp(x, n, s + 1)

\* (int)ceil(x / (float)n) for a float x >= 0 holding an integer and a small
\* count n >= 1: the quotient is rounded to 24 significant bits, then ceil
CeilFDiv(x, n) ==
  IF x = 0 THEN 0
  ELSE IF x \div n >= Pow2(FloatBits - 1)
       THEN LET e == ExpOver(x \div n, 0)
            IN  RoundNE(x, n * Pow2(e)) * Pow2(e)
       ELSE LET s == ScaleUp(x, n, 0)
                m == RoundNE(x * Pow2(s), n)
            IN  (m + Pow2(s) - 1) \div Pow2(s)

\* int shardSize = (int)ceil(totalSize / (float)graphs_.size());
ShardSize(totalSize, n) == CeilFDiv(IntToFloat(totalSize), n)

\* ------------------------------------------------------------- partition
\* totalSize as the loop of foreach (and of init) holds it when iteration
\* idx begins: every iteration takes size = min(shardSize, totalSize) off it
RECURSIVE Remaining(_, _, _)
Remaining(t, n, idx) ==
  IF idx = 0 THEN t
  ELSE LET r == Remaining(t, n, idx - 1)
       IN  r - Min(ShardSize(t, n), r)

\* int size = std::min(shardSize, totalSize);
ShardLen(t, n, idx) == Min(ShardSize(t, n), Remaining(t, n, idx))

\* pos when iteration idx begins: the sum of the earlier sizes
ShardPos(t, n, idx) == t - Remaining(t, n, idx)

\* ------------------------------------------------------------------ values
\* An element is a bag of tokens: <<"g", r, k>> is replica r's initial
\* gradient in column k, <<"v", r, k>> its initial parameter value and
\* <<"p", i, k>> the initial element of caller shard i in column k.  A sum of
\* elements is the bag union: two elements are equal exactly when they are
\* equal for every choice of the initial numbers.
Junk == SetToBag({<<"junk", 0, 0>>})
Tok(kind, r, k) == SetToBag({<<kind, r, k>>})

\* _1 + _2; an unspecified operand makes the sum unspecified
Plus(a, b) == IF a = Junk \/ b = Junk THEN Junk ELSE a (+) b

\* the columns of a tensor of t elements that the model follows
Cols(t) == (0 .. (Min(t, MaxTotal) - 1)) \cup (Max(0, t - TailCols) .. (t - 1))

\* ----------------------------------------------------------------- tensors
\* A Tensor is a view [buf, off, len] of a memory block.
\* Tensor::subtensor(offset, size): a view sharing the memory, not clipped
Subtensor(t, offset, size) == [buf |-> t.buf, off |-> t.off + offset, len |-> size]

\* the element at index k of block b
Cell(m, b, k) == IF b \in DOMAIN m /\ k \in DOMAIN m[b] THEN m[b][k] ELSE Junk

\* dst->copyFrom(in): in->size() elements, from in's first to dst's first
CopyFrom(m, dst, in) ==
  [m EXCEPT ![dst.buf] =
     [k \in DOMAIN @ |->
        IF dst.off <= k /\ k < dst.off + in.len
        THEN Cell(m, in.buf, in.off + (k - dst.off))
        ELSE @[k]]]

\* the element of operand in that Element pairs with out's element i: an
\* operand of one element is broadcast
BIndex(in, i) == IF in.len = 1 THEN 0 ELSE i

\* Element(_1 = _1 + _2, out, in): over the elements of out
ElementAdd(m, out, in) ==
  [m EXCEPT ![out.buf] =
     [k \in DOMAIN @ |->
        IF out.off <= k /\ k < out.off + out.len
        THEN Plus(@[k], Cell(m, in.buf, in.off + BIndex(in, k - out.off)))
        ELSE @[k]]]

\* the cells a statement touches, as intervals [lo, hi) of a block
Access(t, n, w) == [buf |-> t.buf, lo |-> t.off, hi |-> t.off + n, wr |-> w]
NonEmpty(S) == {a \in S : a.lo < a.hi}
CopyAccess(dst, in) ==
  NonEmpty({Access(dst, in.len, TRUE), Access(in, in.len, FALSE)})
AddAccess(out, in) ==
  NonEmpty({Access(out, out.len, TRUE), Access(out, out.len, FALSE),
            Access(in, IF in.len = 1 THEN 1 ELSE out.len, FALSE)})

\* ------------------------------------------------------------------- state
VARIABLES
  nGraphs,      \* graphs_.size()
  total,        \* graphs_[0]->params()->vals()->size()
  mem,          \* the memory blocks: block id -> (index -> element)
  tmpTensors_,  \* DefaultCommunicator::tmpTensors_
  params,       \* the caller's shard tensors, one per replica index
  op,           \* the public operation in progress: [name, arg]
  lam,          \* the lambda handed to foreach: [fn, shardSize, vals]
  fe,           \* the frame of foreach: [pc, idx, pos, totalSize, shardSize, base]
  group,        \* the threads started by the operation in progress
  pre,          \* mem and tmpTensors_ when the operation was called
  hist,         \* the operations that have returned, with their pre and post states
  fault         \* "none", or what stopped the process: "segfault", "abort"

\* the other two parts of the program: the TMatrix class of matrix.h and the
\* node operators; they share no state with the communicator
VARIABLES
  matrix,       \* the TMatrix objects: name -> [rows_, cols_, arrSize_, data_]
  lastResize,   \* what the last call of TMatrix::Resize did
  nodes,        \* the nodes of an expression graph: name -> node
  tensors,      \* the memory of the nodes' tensors: block -> (index -> element)
  out           \* what the last call on a node returned

others == <<matrix, lastResize, nodes, tensors, out>>

\* the variables of the communicator
commVars == <<nGraphs, total, mem, tmpTensors_, params, op, lam, fe, group, pre, hist, fault>>

vars == <<nGraphs, total, mem, tmpTensors_, params, op, lam, fe, group, pre, hist, fault,
          others>>

\* a run of the communicator alone: no matrix, no node
OthersOff ==
  /\ matrix = << >>
  /\ lastResize = << >>
  /\ nodes = << >>
  /\ tensors = << >>
  /\ out = << >>

Graphs == 0 .. (nGraphs - 1)

\* graphs_[r]->params()->vals() and ->grads()
Vals(r) == [buf |-> <<"vals", r>>, off |-> 0, len |-> total]
Grads(r) == [buf |-> <<"grads", r>>, off |-> 0, len |-> total]

\* the indices of a shard-sized block for shard idx that the model follows
LocalCols(t, n, idx) ==
  {k - ShardPos(t, n, idx) : k \in {c \in Cols(t) :
       ShardPos(t, n, idx) <= c /\ c < ShardPos(t, n, idx) + ShardLen(t, n, idx)}}

\* the number of elements allocated to block b
Extent(b) ==
  CASE b[1] \in {"vals", "grads"} -> total
    [] b[1] = "tmp" -> IF b[2] < Len(tmpTensors_) THEN tmpTensors_[b[2] + 1].len ELSE 0
    [] OTHER -> params[b[2]].len

OutOfBounds(accs) == \E a \in accs : a.hi > Extent(a.buf)

Alive == fault = "none"

NoOp == [name |-> "none", arg |-> 0]
NoLam == [fn |-> "none", shardSize |-> 0, vals |-> FALSE]
FeOff == [pc |-> "off", idx |-> 0, pos |-> 0, totalSize |-> 0, shardSize |-> 0, base |-> 0]
Snapshot == [mem |-> mem, tmp |-> tmpTensors_]

Init ==
  /\ nGraphs \in 1 .. MaxGraphs
  /\ total \in (0 .. MaxTotal) \cup BigTotals
  /\ mem = [b \in ({"vals", "grads", "shard"} \X Graphs) |->
              CASE b[1] = "vals" -> [k \in Cols(total) |-> Tok("v", b[2], k)]
                [] b[1] = "grads" -> [k \in Cols(total) |-> Tok("g", b[2], k)]
                [] OTHER -> [k \in LocalCols(total, nGraphs, b[2]) |->
                               Tok("p", b[2], k + ShardPos(total, nGraphs, b[2]))]]
  /\ tmpTensors_ = << >>
  /\ params = [i \in Graphs |->
                 [buf |-> <<"shard", i>>, off |-> 0, len |-> ShardLen(total, nGraphs, i)]]
  /\ op = NoOp
  /\ lam = NoLam
  /\ fe = FeOff
  /\ group = << >>
  /\ pre = Snapshot
  /\ hist = << >>
  /\ fault = "none"
  /\ OthersOff

\* ------------------------------------------------------------------- init()
\* faulty variant: the scratch tensors are allocated anew on every call
InitTmpTensorsAnew ==
  [i \in 1 .. nGraphs |->
     [buf |-> <<"tmp", i - 1>>, off |-> 0, len |-> ShardLen(total, nGraphs, i - 1)]]

\* DefaultCommunicator::init(): on the first use, one scratch tensor per
\* replica, of that replica's shard size; its memory is not initialised
InitTmpTensors ==
  IF Len(tmpTensors_) = 0
  THEN [i \in 1 .. nGraphs |->
          [buf |-> <<"tmp", i - 1>>, off |-> 0, len |-> ShardLen(total, nGraphs, i - 1)]]
  ELSE tmpTensors_

InitMem ==
  IF Len(tmpTensors_) = 0
  THEN mem @@ [b \in ({"tmp"} \X Graphs) |->
                 [k \in LocalCols(total, nGraphs, b[2]) |-> Junk]]
  ELSE mem

\* ---------------------------------------------------------------- foreach
\* the frame of foreach when its loop begins: totalSize, shardSize, pos = 0
ForeachBegin ==
  [pc |-> "spawn", idx |-> 0, pos |-> 0, totalSize |-> total,
   shardSize |-> ShardSize(total, nGraphs), base |-> Len(group)]

\* the least index >= j of a graph other than graphs_[idx]; nGraphs if none
RECURSIVE NextOther(_, _)
NextOther(idx, j) ==
  IF j >= nGraphs THEN nGraphs
  ELSE IF j # idx THEN j ELSE NextOther(idx, j + 1)

\* the first graph index the loop of the lambda visits in thread idx
FirstJ(fn, idx) ==
  IF fn \in {"scatterReduce", "allGather"} THEN NextOther(idx, 0) ELSE 0

\* whether the lambda has a statement to run for loop index j
HasWork(fn, j) ==
  CASE fn \in {"scatterReduce", "allGather", "pullParams"} -> j < nGraphs
    [] OTHER -> TRUE

\* group.emplace_back(func, idx, pos): the thread starts running at once
NewThread(idx, pos, size) ==
  [fn |-> lam.fn, idx |-> idx, pos |-> pos, size |-> size,
   pc |-> IF HasWork(lam.fn, FirstJ(lam.fn, idx)) THEN "copy" ELSE "exit",
   j |-> FirstJ(lam.fn, idx), acc |-> {}]

\* one iteration of the loop over the shards
ForeachSpawn ==
  /\ Alive
  /\ fe.pc = "spawn"
  /\ LET size == Min(fe.shardSize, fe.totalSize)
     IN  /\ group' = Append(group, NewThread(fe.idx, fe.pos, size))
         /\ fe' = [fe EXCEPT !.idx = @ + 1,
                             !.pos = @ + size,
                             !.totalSize = @ - size,
                             !.pc = IF fe.idx + 1 < nGraphs THEN "spawn" ELSE "join"]
  /\ UNCHANGED <<others, nGraphs, total, mem, tmpTensors_, params, op, lam, pre, hist, fault>>

\* faulty variant: join returns without waiting for the thread
JoinableAtOnce(t) == TRUE

\* t.join() returns once thread t has finished
Joinable(t) == t.pc = "done"

\* one iteration of the loop over the group
ForeachJoin ==
  /\ Alive
  /\ fe.pc = "join"
  /\ Joinable(group[fe.base + (nGraphs - fe.idx) + 1])
  /\ fe' = [fe EXCEPT !.idx = @ - 1,
                      !.pc = IF fe.idx = 1 THEN "done" ELSE "join"]
  /\ UNCHANGED <<others, nGraphs, total, mem, tmpTensors_, params, op, lam, group, pre, hist, fault>>

\* ---------------------------------------------------- the lambdas' views
\* curGrad and subGrad of the scatter lambda
ScatterShard(g, pos, shardSize) == Subtensor(Grads(g), pos, shardSize)

\* faulty variant: getShard picks the other tensor
GetShardOther(vals, g, pos, shardSize) ==
  Subtensor(IF vals THEN Grads(g) ELSE Vals(g), pos, shardSize)

\* getShard of the gather lambda
GetShard(vals, g, pos, shardSize) ==
  Subtensor(IF vals THEN Vals(g) ELSE Grads(g), pos, shardSize)

\* tmpTensors_[idx]->copyFrom(subGrad)
ScatterCopyMem(m, t) ==
  CopyFrom(m, tmpTensors_[t.idx + 1], ScatterShard(t.j, t.pos, lam.shardSize))

\* faulty variant: _1 = _2, the gradient is overwritten instead of added to
ScatterOverwriteMem(m, t) ==
  CopyFrom(m, ScatterShard(t.idx, t.pos, lam.shardSize),
              Subtensor(tmpTensors_[t.idx + 1], 0, lam.shardSize))

\* Element(_1 = _1 + _2, curGrad, tmpTensors_[idx])
ScatterAddMem(m, t) ==
  ElementAdd(m, ScatterShard(t.idx, t.pos, lam.shardSize), tmpTensors_[t.idx + 1])

\* faulty variant: the shard is added to the other replica's instead of copied
GatherAddMem(m, t) ==
  ElementAdd(m, GetShard(lam.vals, t.j, t.pos, lam.shardSize),
                GetShard(lam.vals, t.idx, t.pos, lam.shardSize))

\* subShard->copyFrom(curShard)
GatherCopyMem(m, t) ==
  CopyFrom(m, GetShard(lam.vals, t.j, t.pos, lam.shardSize),
              GetShard(lam.vals, t.idx, t.pos, lam.shardSize))

\* graphs_[g]->params()->vals()->subtensor(pos, (int)params[idx]->size())
SubParam(g, t) == Subtensor(Vals(g), t.pos, params[t.idx].len)

\* faulty variant: every shard is taken from the first graph
PushCopyFirstMem(m, t) == CopyFrom(m, params[t.idx], SubParam(0, t))

\* pushParams: params[idx]->copyFrom(subParam)
PushCopyMem(m, t) == CopyFrom(m, params[t.idx], SubParam(t.idx, t))

\* pullParams, and the loop of swapParams: subParam->copyFrom(params[idx])
PullCopyMem(m, t) == CopyFrom(m, SubParam(t.j, t), params[t.idx])

\* faulty variant: the back-up is taken from the first graph
SwapBackupFirstMem(m, t) == CopyFrom(m, params[t.idx], SubParam(0, t))

\* swapParams: params[idx]->copyFrom(subParamLast)
SwapBackupMem(m, t) == CopyFrom(m, params[t.idx], SubParam(nGraphs - 1, t))

\* swapParams: subParamLast->copyFrom(subParamFirst)
SwapRestoreMem(m, t) == CopyFrom(m, SubParam(nGraphs - 1, t), SubParam(0, t))

\* the cells the next statement of thread t touches
NextAccess(t) ==
  CASE t.fn = "scatterReduce" /\ t.pc = "copy" ->
         CopyAccess(tmpTensors_[t.idx + 1], ScatterShard(t.j, t.pos, lam.shardSize))
    [] t.fn = "scatterReduce" /\ t.pc = "add" ->
         AddAccess(ScatterShard(t.idx, t.pos, lam.shardSize), tmpTensors_[t.idx + 1])
    [] t.fn = "allGather" /\ t.pc = "copy" ->
         CopyAccess(GetShard(lam.vals, t.j, t.pos, lam.shardSize),
                    GetShard(lam.vals, t.idx, t.pos, lam.shardSize))
    [] t.fn = "pushParams" /\ t.pc = "copy" ->
         CopyAccess(params[t.idx], SubParam(t.idx, t))
    [] t.fn \in {"pullParams", "swapParams"} /\ t.pc = "copy" ->
         CopyAccess(SubParam(t.j, t), params[t.idx])
    [] t.fn = "swapParams" /\ t.pc = "backup" ->
         CopyAccess(params[t.idx], SubParam(nGraphs - 1, t))
    [] t.fn = "swapParams" /\ t.pc = "restore" ->
         CopyAccess(SubParam(nGraphs - 1, t), SubParam(0, t))
    [] OTHER -> {}

\* thread i runs its next statement: the memory after it and the thread after it
Run(i, m, pc, j) ==
  /\ mem' = m
  /\ group' = [group EXCEPT ![i] =
                 [@ EXCEPT !.pc = pc, !.j = j, !.acc = @ \cup NextAccess(group[i])]]
  /\ UNCHANGED <<others, nGraphs, total, tmpTensors_, params, op, lam, fe, pre, hist, fault>>

Running(i, fn, pc) ==
  /\ Alive
  /\ group[i].fn = fn
  /\ group[i].pc = pc

ScatterCopy(i) ==
  /\ Running(i, "scatterReduce", "copy")
  /\ Run(i, ScatterCopyMem(mem, group[i]), "add", group[i].j)

ScatterAdd(i) ==
  /\ Running(i, "scatterReduce", "add")
  /\ LET j == NextOther(group[i].idx, group[i].j + 1)
     IN  Run(i, ScatterAddMem(mem, group[i]), IF j < nGraphs THEN "copy" ELSE "exit", j)

GatherCopy(i) ==
  /\ Running(i, "allGather", "copy")
  /\ LET j == NextOther(group[i].idx, group[i].j + 1)
     IN  Run(i, GatherCopyMem(mem, group[i]), IF j < nGraphs THEN "copy" ELSE "exit", j)

PushCopy(i) ==
  /\ Running(i, "pushParams", "copy")
  /\ Run(i, PushCopyMem(mem, group[i]), "exit", group[i].j)

PullCopy(i) ==
  /\ Running(i, "pullParams", "copy")
  /\ Run(i, PullCopyMem(mem, group[i]),
          IF group[i].j + 1 < nGraphs THEN "copy" ELSE "exit", group[i].j + 1)

\* for(int i = 0; i < (int)graphs_.size() - 1; ++i)
SwapCopy(i) ==
  /\ Running(i, "swapParams", "copy")
  /\ Run(i, PullCopyMem(mem, group[i]),
          IF group[i].j + 1 < nGraphs - 1 THEN "copy" ELSE "backup", group[i].j + 1)

SwapBackup(i) ==
  /\ Running(i, "swapParams", "backup")
  /\ Run(i, SwapBackupMem(mem, group[i]), "restore", group[i].j)

SwapRestore(i) ==
  /\ Running(i, "swapParams", "restore")
  /\ Run(i, SwapRestoreMem(mem, group[i]), "exit", group[i].j)

\* the lambda returns: the thread has finished
ThreadExit(i) ==
  /\ Alive
  /\ group[i].pc = "exit"
  /\ group' = [group EXCEPT ![i].pc = "done"]
  /\ UNCHANGED <<others, nGraphs, total, mem, tmpTensors_, params, op, lam, fe, pre, hist, fault>>

\* a statement that touches cells outside a memory block is undefined
\* behaviour: the access may go through (the cells past the block belong to
\* no tensor), or it stops the process
SegFault(i) ==
  /\ Alive
  /\ group[i].pc \notin {"exit", "done"}
  /\ OutOfBounds(NextAccess(group[i]))
  /\ fault' = "segfault"
  /\ UNCHANGED <<others, nGraphs, total, mem, tmpTensors_, params, op, lam, fe, group, pre, hist>>

\* ------------------------------------------------------ public operations
Idle == Alive /\ op.name = "none" /\ Len(hist) < MaxCalls

\* scatterReduce() up to its call of foreach: init(), shardSize, the lambda
EnterScatterReduce ==
  /\ tmpTensors_' = InitTmpTensors
  /\ mem' = InitMem
  /\ lam' = [fn |-> "scatterReduce", shardSize |-> ShardSize(total, nGraphs), vals |-> FALSE]
  /\ fe' = ForeachBegin

\* allGather(vals) up to its call of foreach
EnterAllGather(vals) ==
  /\ lam' = [fn |-> "allGather", shardSize |-> ShardSize(total, nGraphs), vals |-> vals]
  /\ fe' = ForeachBegin
  /\ UNCHANGED <<mem, tmpTensors_>>

ScatterReduce ==
  /\ Idle
  /\ op' = [name |-> "scatterReduce", arg |-> 0]
  /\ pre' = Snapshot
  /\ EnterScatterReduce
  /\ UNCHANGED <<others, nGraphs, total, params, group, hist, fault>>

AllGather(vals) ==
  /\ Idle
  /\ op' = [name |-> "allGather", arg |-> IF vals THEN 1 ELSE 0]
  /\ pre' = Snapshot
  /\ EnterAllGather(vals)
  /\ UNCHANGED <<others, nGraphs, total, params, group, hist, fault>>

\* pushParams, pullParams and swapParams up to their call of foreach
EnterParams(name) ==
  /\ op' = [name |-> name, arg |-> 0]
  /\ pre' = Snapshot
  /\ lam' = [fn |-> name, shardSize |-> 0, vals |-> TRUE]
  /\ fe' = ForeachBegin
  /\ UNCHANGED <<others, nGraphs, total, mem, tmpTensors_, params, group, hist, fault>>

PushParams == Idle /\ EnterParams("pushParams")

PullParams == Idle /\ EnterParams("pullParams")

\* faulty variant: swapParams without its ABORT_IF
SwapParamsNoAbort == Idle /\ EnterParams("swapParams")

\* ABORT_IF(graphs_.size() < 2, "Swap requires at least two graphs")
SwapParams ==
  /\ Idle
  /\ IF nGraphs < 2
     THEN /\ fault' = "abort"
          /\ UNCHANGED <<others, nGraphs, total, mem, tmpTensors_, params, op, lam, fe, group, pre, hist>>
     ELSE EnterParams("swapParams")

\* the record hist keeps of an operation that has returned
Returned(o, before, after) ==
  [name |-> o.name, arg |-> o.arg, pre |-> before, post |-> after]

\* allReduceGrads(), called as name: with one graph it returns at once
AllReduceGradsAs(name, arg) ==
  /\ Idle
  /\ IF nGraphs > 1
     THEN /\ op' = [name |-> name, arg |-> arg]
          /\ pre' = Snapshot
          /\ EnterScatterReduce
          /\ UNCHANGED hist
     ELSE /\ hist' = Append(hist, Returned([name |-> name, arg |-> arg], Snapshot, Snapshot))
          /\ UNCHANGED <<op, pre, mem, tmpTensors_, lam, fe>>
  /\ UNCHANGED <<others, nGraphs, total, params, group, fault>>

AllReduceGrads == AllReduceGradsAs("allReduceGrads", 0)

\* reduceGrads(root): allReduceGrads(); root is not used
ReduceGrads(root) == AllReduceGradsAs("reduceGrads", root)

\* foreach has joined its threads and returns into the operation
ForeachReturn ==
  /\ Alive
  /\ fe.pc = "done"
  /\ IF op.name \in {"allReduceGrads", "reduceGrads"} /\ lam.fn = "scatterReduce"
     THEN \* scatterReduce() has returned: allGather(/*vals=*/false)
          /\ EnterAllGather(FALSE)
          /\ UNCHANGED <<op, group, hist>>
     ELSE \* the operation returns to its caller
          /\ hist' = Append(hist, Returned(op, pre, Snapshot))
          /\ op' = NoOp
          /\ lam' = NoLam
          /\ fe' = FeOff
          /\ group' = << >>
          /\ UNCHANGED <<mem, tmpTensors_>>
  /\ UNCHANGED <<others, nGraphs, total, params, pre, fault>>

Threads == 1 .. Len(group)

Next ==
  \/ ScatterReduce
  \/ \E v \in BOOLEAN : AllGather(v)
  \/ AllReduceGrads
  \/ \E root \in Graphs : ReduceGrads(root)
  \/ PushParams
  \/ PullParams
  \/ SwapParams
  \/ ForeachSpawn
  \/ ForeachJoin
  \/ ForeachReturn
  \/ \E i \in Threads : ScatterCopy(i)
  \/ \E i \in Threads : ScatterAdd(i)
  \/ \E i \in Threads : GatherCopy(i)
  \/ \E i \in Threads : PushCopy(i)
  \/ \E i \in Threads : PullCopy(i)
  \/ \E i \in Threads : SwapCopy(i)
  \/ \E i \in Threads : SwapBackup(i)
  \/ \E i \in Threads : SwapRestore(i)
  \/ \E i \in Threads : ThreadExit(i)
  \/ \E i \in Threads : SegFault(i)

Spec == Init /\ [][Next]_vars

\* ------------------------------------------- one operation at a time
\* what foreach and its threads do, whatever the operation
ForeachNext ==
  \/ ForeachSpawn
  \/ ForeachJoin
  \/ ForeachReturn
  \/ \E i \in Threads : ThreadExit(i)
  \/ \E i \in Threads : SegFault(i)

\* a caller that only calls scatterReduce()
NextScatter ==
  \/ ScatterReduce
  \/ \E i \in Threads : ScatterCopy(i)
  \/ \E i \in Threads : ScatterAdd(i)
  \/ ForeachNext

SpecScatter == Init /\ [][NextScatter]_vars

\* a caller that only calls allGather(vals)
NextGather ==
  \/ \E v \in BOOLEAN : AllGather(v)
  \/ \E i \in Threads : GatherCopy(i)
  \/ ForeachNext

SpecGather == Init /\ [][NextGather]_vars

\* a caller that only calls allReduceGrads()
NextAllReduce ==
  \/ AllReduceGrads
  \/ \E i \in Threads : ScatterCopy(i)
  \/ \E i \in Threads : ScatterAdd(i)
  \/ \E i \in Threads : GatherCopy(i)
  \/ ForeachNext

SpecAllReduce == Init /\ [][NextAllReduce]_vars

\* a caller that only calls swapParams(params)
NextSwap ==
  \/ SwapParams
  \/ \E i \in Threads : SwapCopy(i)
  \/ \E i \in Threads : SwapBackup(i)
  \/ \E i \in Threads : SwapRestore(i)
  \/ ForeachSpawn
  \/ ForeachJoin
  \/ ForeachReturn
  \/ \E i \in Threads : ThreadExit(i)

SpecSwap == Init /\ [][NextSwap]_vars

\* between two calls the model is resized: the parameters of every graph
\* are allocated anew with t elements; the communicator is not told
ResizeParams(t) ==
  /\ Idle
  /\ Len(tmpTensors_) > 0
  /\ t # total
  /\ total' = t
  /\ mem' = [b \in DOMAIN mem |->
               CASE b[1] = "vals" -> [k \in Cols(t) |-> Tok("v", b[2], k)]
                 [] b[1] = "grads" -> [k \in Cols(t) |-> Tok("g", b[2], k)]
                 [] OTHER -> mem[b]]
  /\ UNCHANGED <<others, nGraphs, tmpTensors_, params, op, lam, fe, group, pre, hist, fault>>

\* a caller that calls scatterReduce() and resizes the model between calls
NextResize ==
  \/ \E t \in 0 .. MaxTotal : ResizeParams(t)
  \/ NextScatter

SpecResize == Init /\ [][NextResize]_vars

\* a caller that only calls pushParams(params)
NextPush ==
  \/ PushParams
  \/ \E i \in Threads : PushCopy(i)
  \/ ForeachSpawn
  \/ ForeachJoin
  \/ ForeachReturn
  \/ \E i \in Threads : ThreadExit(i)

SpecPush == Init /\ [][NextPush]_vars

\* a caller that only calls pullParams(params)
NextPull ==
  \/ PullParams
  \/ \E i \in Threads : PullCopy(i)
  \/ ForeachSpawn
  \/ ForeachJoin
  \/ ForeachReturn
  \/ \E i \in Threads : ThreadExit(i)

SpecPull == Init /\ [][NextPull]_vars

\* ============================================================ node operators
\* The operator nodes of src/unnamed/part_000.  A node is a record with the
\* fields of Node (type(), the children, shape(), the cached hash_) and the
\* members of the operator classes; a member that a class does not have
\* stays at its blank value.  Children are named, not held: nodes maps a
\* name to its node, as an Expr points to it.
MaxScalar == 1
MaxRank == 3
MaxDim == 2

\* the width of size_t in the model, and the constant of util::hash_combine
\* cut to that width
HashBits == 16
HashMagic == 40503

\* the values of the float members, and of the elements of the tensors
Scalars == 0 .. MaxScalar

Range(f) == {f[i] : i \in DOMAIN f}

\* the vectors over 0..n-1 that name every axis once
Perms(n) == {p \in [1 .. n -> 0 .. (n - 1)] : Range(p) = 0 .. (n - 1)}

\* Shape::elements()
RECURSIVE Elements(_)
Elements(shape) ==
  IF shape = << >> THEN 1 ELSE Head(shape) * Elements(Tail(shape))

\* Shape::set(i, val), axes counted from 0
ShapeSet(shape, i, val) == [shape EXCEPT ![i + 1] = val]

BlankNode ==
  [type |-> "", children |-> << >>, shape |-> << >>, hash_ |-> 0,
   scalar_ |-> 0, clip_ |-> 0, alpha_ |-> 0, epsilon_ |-> 0,
   axis_ |-> 0, step_ |-> 0, axes_ |-> << >>, axesBw_ |-> << >>,
   shift_ |-> << >>, padValue_ |-> 0,
   mask_ |-> "", width_ |-> 0, isEven_ |-> FALSE]

\* a node without children, a parameter of the graph: its hash is cached
Leaf(id, shape) == [BlankNode EXCEPT !.type = "param", !.shape = shape, !.hash_ = id]

\* UnaryNodeOp(a, shape) and UnaryNodeOp(a): one child, its shape by default
UnaryNodeOp(g, a, type, shape) ==
  [BlankNode EXCEPT !.type = type, !.children = <<a>>, !.shape = shape]

ScalarAddNodeOp(g, a, scalar) ==
  [UnaryNodeOp(g, a, "scalar_add", g[a].shape) EXCEPT !.scalar_ = scalar]

ScalarMultNodeOp(g, a, scalar) ==
  [UnaryNodeOp(g, a, "scalar_mult", g[a].shape) EXCEPT !.scalar_ = scalar]

ClipNodeOp(g, a, clip) ==
  [UnaryNodeOp(g, a, "clip", g[a].shape) EXCEPT !.clip_ = clip]

SigmoidNodeOp(g, a) == UnaryNodeOp(g, a, "sigmoid", g[a].shape)

\* TanhNodeOp(nodes): any number of children; Shape::broadcast of shapes
\* that are all the same
TanhNodeOp(g, children) ==
  [BlankNode EXCEPT !.type = "tanh", !.children = children,
                    !.shape = g[children[1]].shape]

PReLUNodeOp(g, alpha, a) ==
  [UnaryNodeOp(g, a, "PReLU", g[a].shape) EXCEPT !.alpha_ = alpha]

\* SumNodeOp and MeanNodeOp: newShape sets axis_ and the shape
SumNodeOp(g, a, axis) ==
  [UnaryNodeOp(g, a, "sum", ShapeSet(g[a].shape, axis, 1)) EXCEPT !.axis_ = axis]

MeanNodeOp(g, a, axis) ==
  [UnaryNodeOp(g, a, "mean", ShapeSet(g[a].shape, axis, 1)) EXCEPT !.axis_ = axis]

SqrtNodeOp(g, a, epsilon) ==
  [UnaryNodeOp(g, a, "sqrt", g[a].shape) EXCEPT !.epsilon_ = epsilon]

NegNodeOp(g, a) == UnaryNodeOp(g, a, "-", g[a].shape)

\* TransposeNodeOp::newShape: shape.set(i, a->shape()[axes[i]])
TransposeShape(shape, axes) == [i \in 1 .. Len(shape) |-> shape[axes[i] + 1]]

\* faulty variant: the axes are stored as they are, not inverted
AxesBwCopied(axes, n) == axes

\* the loop of the constructor, its first n iterations:
\* axesBw_[axes_[i]] = i on a vector of axes.size() zeros
RECURSIVE AxesBwTo(_, _)
AxesBwTo(axes, n) ==
  IF n = 0 THEN [i \in 1 .. Len(axes) |-> 0]
  ELSE [AxesBwTo(axes, n - 1) EXCEPT ![axes[n] + 1] = n - 1]

TransposeNodeOp(g, a, axes) ==
  [UnaryNodeOp(g, a, "transpose", TransposeShape(g[a].shape, axes))
     EXCEPT !.axes_ = axes, !.axesBw_ = AxesBwTo(axes, Len(axes))]

ReshapeNodeOp(g, a, shape) == UnaryNodeOp(g, a, "reshape", shape)

\* StepNodeOp: newShape sets axis_ and the shape
StepNodeOp(g, a, step, axis) ==
  [UnaryNodeOp(g, a, "step", ShapeSet(g[a].shape, axis, 1))
     EXCEPT !.step_ = step, !.axis_ = axis]

ShiftNodeOp(g, a, shift, padValue) ==
  [UnaryNodeOp(g, a, "shift", g[a].shape) EXCEPT !.shift_ = shift, !.padValue_ = padValue]

\* PoolingWithMaskingOp: the mask is a member, not a child
PoolingWithMaskingOp(g, x, mask, width, isEven) ==
  LET xShape == g[x].shape
      cols == IF isEven THEN xShape[3] - 1 ELSE xShape[3]
      dimSentence == (cols \div width) + (IF cols % width # 0 THEN 1 ELSE 0)
  IN  [UnaryNodeOp(g, x, "layer_pooling", <<xShape[1], xShape[2], dimSentence>>)
         EXCEPT !.mask_ = mask, !.width_ = width, !.isEven_ = isEven]

\* ------------------------------------------------------------ hash, equal
RECURSIVE Xor(_, _)
Xor(a, b) ==
  IF a = 0 THEN b
  ELSE IF b = 0 THEN a
  ELSE ((a + b) % 2) + 2 * Xor(a \div 2, b \div 2)

\* util::hash_combine(seed, v):
\* seed ^= std::hash(v) + magic + (seed << 6) + (seed >> 2), in size_t
HashCombine(seed, v) ==
  Xor(seed, (v + HashMagic + seed * 64 + seed \div 4) % Pow2(HashBits))

\* the hash of a type() string: its place among the type names
Types ==
  <<"param", "scalar_add", "scalar_mult", "clip", "sigmoid", "tanh", "PReLU",
    "sum", "mean", "sqrt", "-", "transpose", "reshape", "step", "shift",
    "layer_pooling">>

TypeHash(type) == CHOOSE i \in 1 .. Len(Types) : Types[i] = type

\* hash_combine over the elements of a vector, in order
RECURSIVE HashCombineAll(_, _)
HashCombineAll(seed, vs) ==
  IF vs = << >> THEN seed ELSE HashCombineAll(HashCombine(seed, Head(vs)), Tail(vs))

\* the children's hash(), in order; a node's own hash_ once it is cached
RECURSIVE NodeHash(_, _)

\* NaryNodeOp::hash(): the type and the children's hashes, in order
NaryHash(g, n) ==
  HashCombineAll(TypeHash(g[n].type), [i \in 1 .. Len(g[n].children) |-> NodeHash(g, g[n].children[i])])

\* what each class mixes into the hash after NaryNodeOp::hash()
HashedMembers(nd) ==
  CASE nd.type \in {"scalar_add", "scalar_mult"} -> <<nd.scalar_>>
    [] nd.type = "clip" -> <<nd.clip_>>
    [] nd.type = "PReLU" -> <<nd.alpha_>>
    [] nd.type \in {"sum", "mean"} -> <<nd.axis_>>
    [] nd.type = "sqrt" -> <<nd.epsilon_>>
    [] nd.type = "transpose" -> nd.axes_
    [] nd.type = "reshape" -> nd.shape
    [] nd.type = "step" -> <<nd.step_, nd.axis_>>
    [] nd.type = "shift" -> nd.shift_ \o <<nd.padValue_>>
    [] OTHER -> << >>

\* hash(): if(!hash_) hash_ = ...; return hash_;
NodeHash(g, n) ==
  IF g[n].hash_ # 0 THEN g[n].hash_
  ELSE HashCombineAll(NaryHash(g, n), HashedMembers(g[n]))

\* NaryNodeOp::equal(node): the same type and the same children
NaryEqual(g, n, m) ==
  /\ g[n].type = g[m].type
  /\ g[n].children = g[m].children

\* what each class compares in equal() after NaryNodeOp::equal and the cast
MembersEqual(a, b) ==
  CASE a.type \in {"scalar_add", "scalar_mult"} -> a.scalar_ = b.scalar_
    [] a.type = "clip" -> a.clip_ = b.clip_
    [] a.type = "PReLU" -> a.alpha_ = b.alpha_
    [] a.type \in {"sum", "mean"} -> a.axis_ = b.axis_
    [] a.type = "sqrt" -> a.epsilon_ = b.epsilon_
    [] a.type = "transpose" -> a.axes_ = b.axes_
    [] a.type = "reshape" -> a.shape = b.shape
    [] a.type = "step" -> a.step_ = b.step_ /\ a.axis_ = b.axis_
    [] a.type = "shift" -> a.shift_ = b.shift_
    [] OTHER -> TRUE

\* n->equal(m): the base class, the dynamic cast to n's class, the members
NodeEqual(g, n, m) ==
  /\ NaryEqual(g, n, m)
  /\ g[m].type = g[n].type
  /\ MembersEqual(g[n], g[m])

\* ------------------------------------------------ hash() and equal() called
\* the communicator and the matrices are absent from a run of the nodes
CommOff ==
  /\ nGraphs = 1
  /\ total = 0
  /\ mem = << >>
  /\ tmpTensors_ = << >>
  /\ params = << >>
  /\ op = NoOp
  /\ lam = NoLam
  /\ fe = FeOff
  /\ group = << >>
  /\ pre = << >>
  /\ hist = << >>
  /\ fault = "none"

\* nothing has been called on a node yet
NoCall == [fn |-> "none", of |-> << >>, value |-> 0]

\* the shape of the parameters x and y: rank 3, as the pooling node needs
LeafShape == <<MaxDim, MaxDim, MaxDim + 1>>

Leaves == [n \in {"x", "y"} |-> Leaf(IF n = "x" THEN 1 ELSE 2, LeafShape)]

\* the operator nodes that can be built over the child a
OpNodes(g, a) ==
  {ScalarAddNodeOp(g, a, c) : c \in Scalars}
  \cup {ScalarMultNodeOp(g, a, c) : c \in Scalars}
  \cup {ClipNodeOp(g, a, c) : c \in Scalars}
  \cup {PReLUNodeOp(g, c, a) : c \in Scalars}
  \cup {SqrtNodeOp(g, a, c) : c \in Scalars}
  \cup {SigmoidNodeOp(g, a), NegNodeOp(g, a), TanhNodeOp(g, <<a>>)}
  \cup {SumNodeOp(g, a, ax) : ax \in 0 .. (Len(g[a].shape) - 1)}
  \cup {MeanNodeOp(g, a, ax) : ax \in 0 .. (Len(g[a].shape) - 1)}
  \cup {TransposeNodeOp(g, a, axes) : axes \in Perms(Len(g[a].shape))}
  \cup {ReshapeNodeOp(g, a, sh) :
          sh \in {<<Elements(g[a].shape)>>, <<1, Elements(g[a].shape)>>}}
  \cup {StepNodeOp(g, a, k, ax) : k \in 0 .. (MaxDim - 1), ax \in 0 .. (Len(g[a].shape) - 1)}
  \cup {ShiftNodeOp(g, a, sh, pad) :
          sh \in [1 .. Len(g[a].shape) -> 0 .. 1], pad \in Scalars}
  \cup {PoolingWithMaskingOp(g, a, mask, w, even) :
          mask \in {"x", "y"}, w \in 1 .. MaxDim, even \in BOOLEAN}

\* two operator nodes a and b over the parameters, as a graph builder holds
\* them before it looks for a node that is already there
InitIdentity ==
  /\ CommOff
  /\ matrix = << >>
  /\ lastResize = << >>
  /\ tensors = << >>
  /\ out = NoCall
  /\ \E na \in OpNodes(Leaves, "x") :
       \E nb \in OpNodes(Leaves, "x") \cup OpNodes(Leaves, "y") :
         nodes = [n \in {"x", "y", "a", "b"} |->
                    CASE n = "a" -> na [] n = "b" -> nb [] OTHER -> Leaves[n]]

\* n->hash()
Hash(n) ==
  /\ nodes' = [nodes EXCEPT ![n].hash_ = NodeHash(nodes, n)]
  /\ out' = [fn |-> "hash", of |-> <<n>>, value |-> NodeHash(nodes, n)]
  /\ UNCHANGED <<commVars, matrix, lastResize, tensors>>

\* n->equal(m)
Equal(n, m) ==
  /\ out' = [fn |-> "equal", of |-> <<n, m>>, value |-> NodeEqual(nodes, n, m)]
  /\ UNCHANGED <<commVars, matrix, lastResize, tensors, nodes>>

NextIdentity ==
  \/ \E n \in {"a", "b"} : Hash(n)
  \/ \E n, m \in {"a", "b"} : Equal(n, m)

SpecIdentity == InitIdentity /\ [][NextIdentity]_vars

\* ------------------------------------------------------------- step views
\* sizeof(float)
SizeofFloat == 4

\* the shapes of rank 1 .. MaxRank with every dimension in 1 .. MaxDim
Shapes == UNION {[1 .. r -> 1 .. MaxDim] : r \in 1 .. MaxRank}

\* size_t offset = step_ * shape().elements() * sizeof(float);
StepOffset(nd) == nd.step_ * Elements(nd.shape) * SizeofFloat

\* StepNodeOp::val() and grad(): a tensor of the node's shape on the child's
\* memory, moved by offset bytes
StepView(g, n, which) ==
  [buf |-> <<which, g[n].children[1]>>,
   off |-> StepOffset(g[n]) \div SizeofFloat,
   len |-> Elements(g[n].shape)]

\* a parameter x with zeroed memory and a step node a over it
InitStep ==
  /\ CommOff
  /\ matrix = << >>
  /\ lastResize = << >>
  /\ out = NoCall
  /\ \E shape \in Shapes : \E axis \in 0 .. (Len(shape) - 1) :
       \E step \in 0 .. (shape[axis + 1] - 1) :
         LET g == [n \in {"x"} |-> Leaf(1, shape)] IN
         /\ nodes = [n \in {"x", "a"} |->
                       IF n = "x" THEN g[n] ELSE StepNodeOp(g, "x", step, axis)]
         /\ tensors = [b \in {"val", "grad"} \X {"x"} |->
                         [i \in 0 .. (Elements(shape) - 1) |-> 0]]

\* a->val()
StepVal ==
  /\ out' = [fn |-> "val", of |-> <<"a">>, value |-> StepView(nodes, "a", "val")]
  /\ UNCHANGED <<commVars, matrix, lastResize, nodes, tensors>>

\* a->grad()
StepGrad ==
  /\ out' = [fn |-> "grad", of |-> <<"a">>, value |-> StepView(nodes, "a", "grad")]
  /\ UNCHANGED <<commVars, matrix, lastResize, nodes, tensors>>

\* a parent of a adds into element j of the tensor that a->grad() returned
StepWrite(j) ==
  /\ out.fn = "grad"
  /\ j < out.value.len
  /\ out.value.off + j \in DOMAIN tensors[out.value.buf]
  /\ tensors[out.value.buf][out.value.off + j] < MaxScalar
  /\ tensors' = [tensors EXCEPT ![out.value.buf][out.value.off + j] = @ + 1]
  /\ UNCHANGED <<commVars, matrix, lastResize, nodes, out>>

NextStep ==
  \/ StepVal
  \/ StepGrad
  \/ \E j \in 0 .. (Elements(nodes["x"].shape) - 1) : StepWrite(j)

SpecStep == InitStep /\ [][NextStep]_vars

\* ---------------------------------------------------------------- backward
\* the functor of a class's backwardOps at one element: g is the element of
\* adj_, x of child(i)->val(), v of val_
Functor(nd, g, x, v) ==
  CASE nd.type = "scalar_add" -> g
    [] nd.type = "scalar_mult" -> nd.scalar_ * g
    [] nd.type = "clip" -> (IF -nd.clip_ < x /\ x < nd.clip_ THEN 1 ELSE 0) * g
    [] nd.type = "sigmoid" -> g * v * (1 - v)
    [] nd.type = "tanh" -> g * (1 - (v * v))
    [] nd.type = "PReLU" -> g * (IF x > 0 THEN 1 ELSE nd.alpha_)
    [] nd.type = "-" -> -g
    [] OTHER -> 0

\* the Add kernel at one element of its output: out += value
Accumulate(old, value) == old + value

\* faulty variant: Element(_1 = functor, child->grad(), adj_, ...), the
\* functor's value is assigned to the child's gradient
AddOverwrites(m, nd, c, n) ==
  [m EXCEPT ![<<"grad", c>>] =
     [k \in DOMAIN @ |->
        Functor(nd, m[<<"adj", n>>][k], m[<<"val", c>>][k], m[<<"val", n>>][k])]]

\* Add(functor, child->grad(), adj_, ...): the functor's value is added to
\* every element of the child's gradient
Add(m, nd, c, n) ==
  [m EXCEPT ![<<"grad", c>>] =
     [k \in DOMAIN @ |->
        Accumulate(@[k], Functor(nd, m[<<"adj", n>>][k], m[<<"val", c>>][k],
                                 m[<<"val", n>>][k]))]]

\* the NodeOps of backwardOps() run in order: one Add for each of the
\* children i, i + 1, ...
RECURSIVE BackwardOps(_, _, _, _)
BackwardOps(g, m, n, i) ==
  IF i > Len(g[n].children) THEN m
  ELSE BackwardOps(g, Add(m, g[n], g[n].children[i], n), n, i + 1)

\* the nodes with an Add in backwardOps that can be built over the child a
AddingNodes(g, a) ==
  {ScalarAddNodeOp(g, a, c) : c \in Scalars}
  \cup {ScalarMultNodeOp(g, a, c) : c \in Scalars}
  \cup {ClipNodeOp(g, a, c) : c \in Scalars}
  \cup {PReLUNodeOp(g, c, a) : c \in Scalars}
  \cup {SigmoidNodeOp(g, a), NegNodeOp(g, a), TanhNodeOp(g, <<a>>), TanhNodeOp(g, <<a, a>>)}

\* a tensor of the shape, every element from S
TensorsOver(shape, S) == [0 .. (Elements(shape) - 1) -> S]

\* whether backwardOps of the class reads val_
ReadsVal(nd) == nd.type \in {"sigmoid", "tanh"}

\* a parameter x with two parents a and b, after the forward pass and with
\* the adjoints of a and b in place; x's gradient holds what earlier nodes
\* left there
InitBackward ==
  /\ CommOff
  /\ matrix = << >>
  /\ lastResize = << >>
  /\ LET g == [n \in {"x"} |-> Leaf(1, <<1>>)] IN
     \E na, nb \in AddingNodes(g, "x") :
     \E xv, xg, ga, gb, va, vb \in TensorsOver(<<1>>, Scalars) :
       /\ ReadsVal(na) \/ va = [k \in DOMAIN va |-> 0]
       /\ ReadsVal(nb) \/ vb = [k \in DOMAIN vb |-> 0]
       /\ nodes = [n \in {"x", "a", "b"} |->
                     CASE n = "a" -> na [] n = "b" -> nb [] OTHER -> g[n]]
       /\ tensors = [b \in {<<"val", "x">>, <<"grad", "x">>, <<"val", "a">>,
                              <<"adj", "a">>, <<"val", "b">>, <<"adj", "b">>} |->
                       CASE b = <<"val", "x">> -> xv
                         [] b = <<"grad", "x">> -> xg
                         [] b = <<"val", "a">> -> va
                         [] b = <<"adj", "a">> -> ga
                         [] b = <<"val", "b">> -> vb
                         [] OTHER -> gb]
       /\ out = [fn |-> "backward", of |-> << >>, value |-> xg]

\* n->backward(): its backwardOps run, once in a backward pass
Backward(n) ==
  /\ out.fn = "backward"
  /\ n \notin Range(out.of)
  /\ tensors' = BackwardOps(nodes, tensors, n, 1)
  /\ out' = [out EXCEPT !.of = Append(@, n)]
  /\ UNCHANGED <<commVars, matrix, lastResize, nodes>>

NextBackward == \E n \in {"a", "b"} : Backward(n)

SpecBackward == InitBackward /\ [][NextBackward]_vars

\* --------------------------------------------------------------- transpose
\* the shapes of the child of a transpose node
TransposeShapes == UNION {[1 .. r -> 1 .. (MaxDim + 1)] : r \in 1 .. MaxRank}

\* a parameter x, before a transpose node is built over it
InitTranspose ==
  /\ CommOff
  /\ matrix = << >>
  /\ lastResize = << >>
  /\ tensors = << >>
  /\ out = NoCall
  /\ \E shape \in TransposeShapes : nodes = [n \in {"x"} |-> Leaf(1, shape)]

\* New<TransposeNodeOp>(x, axes): newShape aborts when axes has not as many
\* entries as the shape of x has axes
Transpose(axes) ==
  /\ out = NoCall
  /\ IF Len(nodes["x"].shape) # Len(axes)
     THEN /\ out' = [fn |-> "abort", of |-> <<"x">>, value |-> 0]
          /\ UNCHANGED nodes
     ELSE /\ nodes' = [n \in {"x", "a"} |->
                        IF n = "x" THEN nodes[n] ELSE TransposeNodeOp(nodes, "x", axes)]
          /\ out' = [fn |-> "transpose", of |-> <<"x">>, value |-> 0]
  /\ UNCHANGED <<commVars, matrix, lastResize, tensors>>

NextTranspose == \E r \in 1 .. MaxRank : \E axes \in Perms(r) : Transpose(axes)

SpecTranspose == InitTranspose /\ [][NextTranspose]_vars

\* ================================================================= TMatrix
\* the largest number of rows or columns a caller asks for
MaxSide == 2

Sides == 0 .. MaxSide

\* the two matrix objects of the run
Names == {"a", "b"}

\* data_ is either null or a device vector of a given number of elements;
\* the elements themselves are not followed
nullptr == [null |-> TRUE, size |-> 0]

VecType(n) == [null |-> FALSE, size |-> n]

\* TMatrix::size(): the logical size, not the size of the allocation
size(m) == m.cols_ * m.rows_

\* TMatrix()
TMatrixDefault == [rows_ |-> 0, cols_ |-> 0, arrSize_ |-> 0, data_ |-> nullptr]

\* TMatrix(rows, cols, zero): zero only sets the elements
TMatrix(rows, cols) ==
  [rows_ |-> rows, cols_ |-> cols, arrSize_ |-> rows * cols, data_ |-> VecType(rows * cols)]

NoResize ==
  [of |-> "none", grew |-> FALSE, copied |-> 0, oldAlloc |-> 0, oldCap |-> 0,
   newCap |-> 0, outcome |-> "none"]

\* the process is still running: no copy has crashed it
NotCrashed == lastResize.outcome # "crash"

\* two default constructed matrices
InitMatrix ==
  /\ CommOff
  /\ nodes = << >>
  /\ tensors = << >>
  /\ out = << >>
  /\ matrix = [x \in Names |-> TMatrixDefault]
  /\ lastResize = NoResize

\* a sized matrix is constructed in the place of x
Construct(x, rows, cols) ==
  /\ NotCrashed
  /\ matrix' = [matrix EXCEPT ![x] = TMatrix(rows, cols)]
  /\ UNCHANGED <<commVars, lastResize, nodes, tensors, out>>

\* TMatrix::Resize. A growing resize copies size() elements out of the old
\* vector into the new one; where that count exceeds the old or the new
\* allocation the copy runs out of bounds, and it either goes through over
\* foreign memory or ends the process.
Resize(x, rows, cols) ==
  /\ NotCrashed
  /\ LET m == matrix[x]
         grows == (~ m.data_.null) /\ rows * cols > m.arrSize_
         fresh == m.data_.null \/ grows
         copied == IF grows THEN size(m) ELSE 0
         after == [rows_ |-> rows,
                   cols_ |-> cols,
                   arrSize_ |-> IF fresh THEN rows * cols ELSE m.arrSize_,
                   data_ |-> IF fresh THEN VecType(rows * cols) ELSE m.data_]
         outcomes == IF copied > m.data_.size \/ copied > rows * cols
                     THEN {"done", "crash"}
                     ELSE {"done"}
     IN \E outcome \in outcomes :
          /\ matrix' = IF outcome = "done" THEN [matrix EXCEPT ![x] = after] ELSE matrix
          /\ lastResize' = [of |-> x, grew |-> grows, copied |-> copied,
                            oldAlloc |-> m.data_.size, oldCap |-> m.arrSize_,
                            newCap |-> after.arrSize_, outcome |-> outcome]
  /\ UNCHANGED <<commVars, nodes, tensors, out>>

\* TMatrix::Reshape
Reshape(x, rows, cols) ==
  /\ NotCrashed
  /\ matrix' = [matrix EXCEPT ![x].rows_ = rows, ![x].cols_ = cols]
  /\ UNCHANGED <<commVars, lastResize, nodes, tensors, out>>

\* TMatrix::Clear
Clear(x) ==
  /\ NotCrashed
  /\ matrix' = [matrix EXCEPT ![x] = TMatrixDefault]
  /\ UNCHANGED <<commVars, lastResize, nodes, tensors, out>>

\* TMatrix::swap on the matrices ms
swap(ms, x, y) == [ms EXCEPT ![x] = ms[y], ![y] = ms[x]]

Swap(x, y) ==
  /\ NotCrashed
  /\ x # y
  /\ matrix' = swap(matrix, x, y)
  /\ UNCHANGED <<commVars, lastResize, nodes, tensors, out>>

\* TMatrix(TMatrix&& m): x is default constructed in its place, then swapped
\* with y
MoveConstruct(x, y) ==
  /\ NotCrashed
  /\ x # y
  /\ matrix' = swap([matrix EXCEPT ![x] = TMatrixDefault], x, y)
  /\ UNCHANGED <<commVars, lastResize, nodes, tensors, out>>

NextMatrix ==
  \/ \E x \in Names : \E rows, cols \in Sides : Construct(x, rows, cols)
  \/ \E x \in Names : \E rows, cols \in Sides : Resize(x, rows, cols)
  \/ \E x \in Names : \E rows, cols \in Sides : Reshape(x, rows, cols)
  \/ \E x \in Names : Clear(x)
  \/ \E x, y \in Names : Swap(x, y)
  \/ \E x, y \in Names : MoveConstruct(x, y)

SpecMatrix == InitMatrix /\ [][NextMatrix]_vars

\* ================================================================ claims
\* the operations that have returned, as their caller finds them when it
\* runs again: no operation is in progress
Hist == IF op.name = "none" THEN {hist[i] : i \in 1 .. Len(hist)} ELSE {}

\* the threads of the foreach in progress, by replica index
Thread(i) == group[fe.base + i + 1]

\* the columns of shard i, as foreach derives it, that the model follows
ShardCols(i) ==
  {k \in Cols(total) :
     ShardPos(total, nGraphs, i) <= k
     /\ k < ShardPos(total, nGraphs, i) + ShardLen(total, nGraphs, i)}

\* ceil(total / n) in exact arithmetic
CeilDiv(t, n) == (t + n - 1) \div n

\* the sum over the replicas 0..r of column k of their gradients in memory m
RECURSIVE GradSumTo(_, _, _)
GradSumTo(m, k, r) ==
  IF r < 0 THEN EmptyBag ELSE Plus(GradSumTo(m, k, r - 1), m[<<"grads", r>>][k])

GradSum(m, k) == GradSumTo(m, k, nGraphs - 1)

\* C1: when the loop of foreach has run, the (pos, size) pairs it derived
\* partition [0, total): the first range starts at 0, every range starts
\* where the one before ends, the last one ends at total, and no size
\* exceeds ceil(total / N).
C1_ShardsPartition ==
  fe.pc \in {"join", "done"} =>
    /\ Thread(0).pos = 0
    /\ \A i \in 1 .. (nGraphs - 1) : Thread(i).pos = Thread(i - 1).pos + Thread(i - 1).size
    /\ Thread(nGraphs - 1).pos + Thread(nGraphs - 1).size = total
    /\ \A i \in Graphs : Thread(i).size >= 0 /\ Thread(i).size <= CeilDiv(total, nGraphs)

\* C2: after scatterReduce() has returned, shard i of replica i's gradient
\* holds, in every column, the sum over all replicas of their gradients
\* before the call.
C2_ScatterReduceSums ==
  \A h \in Hist : h.name = "scatterReduce" =>
    \A i \in Graphs : \A k \in ShardCols(i) :
      h.post.mem[<<"grads", i>>][k] = GradSum(h.pre.mem, k)

C2_Witness ==
  \E h \in Hist : h.name = "scatterReduce" /\ nGraphs = 3 /\ total = 4
                  /\ h.post.mem[<<"grads", 1>>] # h.pre.mem[<<"grads", 1>>]

\* C3: the cells of a replica buffer that the thread for shard i of
\* scatterReduce or allGather reads or writes are exactly shard i's range
\* [pos_i, pos_i + size_i), which lies inside [0, total).
C3_ThreadAccessIsShard ==
  \A n \in 1 .. Len(group) :
    LET t == group[n] IN
    t.fn \in {"scatterReduce", "allGather"} =>
      \A a \in t.acc : a.buf[1] \in {"vals", "grads"} =>
        /\ a.lo = ShardPos(total, nGraphs, t.idx)
        /\ a.hi = ShardPos(total, nGraphs, t.idx) + ShardLen(total, nGraphs, t.idx)
        /\ a.hi <= total

\* two accesses conflict: the same block, overlapping cells, one a write
Conflict(a, b) ==
  /\ a.buf = b.buf
  /\ a.wr \/ b.wr
  /\ a.lo < b.hi
  /\ b.lo < a.hi

\* C4: no two threads of one foreach touch the same cell of the same block
\* with one of the two accesses a write.
C4_ThreadsIndependent ==
  \A m, n \in 1 .. Len(group) :
    (m # n /\ group[m].fn = group[n].fn) =>
      \A a \in group[m].acc : \A b \in group[n].acc : ~Conflict(a, b)

\* an access, cut at the end of its block
Clip(a) == [a EXCEPT !.hi = Min(a.hi, Extent(a.buf))]

\* what does hold of the threads of one foreach: inside the blocks (every
\* access cut at the end of its block) no two of them conflict
InRangeIndependent ==
  \A m, n \in 1 .. Len(group) :
    (m # n /\ group[m].fn = group[n].fn) =>
      \A a \in group[m].acc : \A b \in group[n].acc : ~Conflict(Clip(a), Clip(b))

\* C5: foreach starts one thread per replica index, in order, and has
\* returned only when every one of them has finished; in allReduceGrads (and
\* reduceGrads) a gather thread exists only when all the scatter threads
\* have finished.
C5_ForeachBarrier ==
  /\ fe.pc = "spawn" => Len(group) - fe.base = fe.idx
  /\ fe.pc \in {"join", "done"} =>
       /\ Len(group) - fe.base = nGraphs
       /\ \A i \in Graphs : Thread(i).idx = i /\ Thread(i).fn = lam.fn
  /\ fe.pc = "done" => \A i \in Graphs : Thread(i).pc = "done"
  /\ \A m, n \in 1 .. Len(group) :
       (group[m].fn = "allGather" /\ group[n].fn = "scatterReduce") =>
          /\ group[n].pc = "done"
          /\ Cardinality({x \in 1 .. Len(group) : group[x].fn = "scatterReduce"}) = nGraphs

C5_Witness ==
  /\ op.name = "allReduceGrads"
  /\ nGraphs = 3
  /\ \E n \in 1 .. Len(group) : group[n].fn = "allGather" /\ group[n].pc = "copy"

\* C6: when allReduceGrads() has returned with two or more replicas, every
\* column of every replica's gradient holds the sum of all replicas'
\* gradients before the call; with one replica nothing has changed.
C6_AllReduceSums ==
  \A h \in Hist : h.name = "allReduceGrads" =>
    IF nGraphs >= 2
    THEN \A r \in Graphs : \A k \in Cols(total) :
           h.post.mem[<<"grads", r>>][k] = GradSum(h.pre.mem, k)
    ELSE h.post = h.pre

\* C7: after allGather(vals) has returned, shard i of the selected buffer
\* (values if vals, else gradients) of every replica, replica i included,
\* holds what replica i's shard i held before the call.
C7_AllGatherBroadcasts ==
  \A h \in Hist : h.name = "allGather" =>
    LET sel == IF h.arg = 1 THEN "vals" ELSE "grads" IN
    \A i \in Graphs : \A k \in ShardCols(i) : \A r \in Graphs :
      h.post.mem[<<sel, r>>][k] = h.pre.mem[<<sel, i>>][k]

C7_Witness ==
  \E h \in Hist : h.name = "allGather" /\ h.arg = 1 /\ nGraphs = 3 /\ total = 4
                  /\ h.post # h.pre

\* C8: a second allGather(true) right after a first one leaves the values
\* and the gradients of every replica as the first left them.
C8_AllGatherIdempotent ==
  \A n \in 1 .. (Len(hist) - 1) :
    (/\ op.name = "none"
     /\ hist[n].name = "allGather" /\ hist[n].arg = 1
     /\ hist[n + 1].name = "allGather" /\ hist[n + 1].arg = 1) =>
       hist[n + 1].post = hist[n].post

C8_Witness ==
  /\ op.name = "none"
  /\ Len(hist) >= 2
  /\ hist[1].name = "allGather" /\ hist[1].arg = 1
  /\ hist[2].name = "allGather" /\ hist[2].arg = 1
  /\ hist[1].post # hist[1].pre
  /\ nGraphs = 3

\* C9: when reduceGrads(root) has returned, for any root, the state is the
\* one allReduceGrads() leaves: with two or more replicas every column of
\* every replica's gradient holds the sum of all replicas' gradients before
\* the call, whatever root is; with one replica nothing has changed.
C9_ReduceGradsIsAllReduce ==
  \A h \in Hist : h.name = "reduceGrads" =>
    IF nGraphs >= 2
    THEN \A r \in Graphs : \A k \in Cols(total) :
           h.post.mem[<<"grads", r>>][k] = GradSum(h.pre.mem, k)
    ELSE h.post = h.pre

\* what the code does in allReduceGrads and in reduceGrads(root) alike: the
\* columns that the shards cover are summed into every replica, the others
\* and all other memory are left as they were
AllReduceEffect ==
  \A h \in Hist : h.name \in {"allReduceGrads", "reduceGrads"} =>
    /\ \A r \in Graphs : \A k \in Cols(total) :
         /\ h.post.mem[<<"grads", r>>][k] =
              IF nGraphs >= 2 /\ k < ShardPos(total, nGraphs, nGraphs)
              THEN GradSum(h.pre.mem, k)
              ELSE h.pre.mem[<<"grads", r>>][k]
         /\ h.post.mem[<<"vals", r>>][k] = h.pre.mem[<<"vals", r>>][k]
    /\ \A r \in Graphs : h.post.mem[<<"shard", r>>] = h.pre.mem[<<"shard", r>>]

\* column k of shard i, as an index of the caller's tensor params[i]
Local(i, k) == k - ShardPos(total, nGraphs, i)

\* swapParams: the replicas but the last hold the shards' former content,
\* and the shards hold the last replica's former content
SwapExchanges(h) ==
  \A i \in Graphs : \A k \in ShardCols(i) :
    /\ \A r \in 0 .. (nGraphs - 2) :
         h.post.mem[<<"vals", r>>][k] = h.pre.mem[<<"shard", i>>][Local(i, k)]
    /\ h.post.mem[<<"shard", i>>][Local(i, k)] = h.pre.mem[<<"vals", nGraphs - 1>>][k]

\* C10, as claimed: after swapParams, for every shard i, every replica
\* but the last holds the former content of shards[i], shards[i] holds the
\* last replica's former shard i, and the last replica's shard i holds the
\* FIRST replica's former shard i.
C10_SwapLastGetsFirstOriginal ==
  \A h \in Hist : h.name = "swapParams" =>
    /\ SwapExchanges(h)
    /\ \A i \in Graphs : \A k \in ShardCols(i) :
         h.post.mem[<<"vals", nGraphs - 1>>][k] = h.pre.mem[<<"vals", 0>>][k]

\* C10, amended: ... and the last replica's shard i holds the former content
\* of shards[i] as well (it is copied from the first replica after the first
\* replica has received shards[i]).
C10_SwapLastGetsShard ==
  \A h \in Hist : h.name = "swapParams" =>
    /\ SwapExchanges(h)
    /\ \A i \in Graphs : \A k \in ShardCols(i) :
         h.post.mem[<<"vals", nGraphs - 1>>][k] = h.pre.mem[<<"shard", i>>][Local(i, k)]

C10_Witness ==
  \E h \in Hist : h.name = "swapParams" /\ nGraphs = 3 /\ total = 4
                  /\ h.post.mem[<<"vals", 2>>] # h.pre.mem[<<"vals", 2>>]

\* the buffers that sel names ("vals", "grads", "shard") are the same in
\* the snapshots x and y
Same(sel, x, y) ==
  \A r \in Graphs : \A b \in sel : x.mem[<<b, r>>] = y.mem[<<b, r>>]

\* pullParams: shard i of every replica's values holds the former content
\* of shards[i]; the shards and the gradients are as they were
PullWrites(h) ==
  /\ \A i \in Graphs : \A k \in ShardCols(i) : \A r \in Graphs :
       h.post.mem[<<"vals", r>>][k] = h.pre.mem[<<"shard", i>>][Local(i, k)]
  /\ Same({"shard", "grads"}, h.pre, h.post)

\* C11: after pullParams(shards) has returned, shard i of the values of
\* every replica holds shards[i], so the values of all replicas are the
\* same in every column; the shards and all gradients are unchanged.
C11_PullMakesIdentical ==
  \A h \in Hist : h.name = "pullParams" =>
    /\ PullWrites(h)
    /\ \A r \in Graphs : h.post.mem[<<"vals", r>>] = h.post.mem[<<"vals", 0>>]

\* what does hold of pullParams: the columns that the shards cover are
\* written as C11 says, the columns that no shard covers keep their content
PullEffect ==
  \A h \in Hist : h.name = "pullParams" =>
    /\ PullWrites(h)
    /\ \A r \in Graphs : \A k \in Cols(total) :
         k >= ShardPos(total, nGraphs, nGraphs) =>
           h.post.mem[<<"vals", r>>][k] = h.pre.mem[<<"vals", r>>][k]

\* C12: after pushParams(shards) has returned, shards[i] holds shard i of
\* replica i's values, and the values and the gradients of every replica
\* are unchanged.
C12_PushCopiesShards ==
  \A h \in Hist : h.name = "pushParams" =>
    /\ \A i \in Graphs : \A k \in ShardCols(i) :
         h.post.mem[<<"shard", i>>][Local(i, k)] = h.pre.mem[<<"vals", i>>][k]
    /\ Same({"vals", "grads"}, h.pre, h.post)

C12_Witness ==
  \E h \in Hist : h.name = "pushParams" /\ nGraphs = 3 /\ total = 4
                  /\ \A i \in {0, 1} : h.post.mem[<<"shard", i>>] # h.pre.mem[<<"shard", i>>]

\* C13: with fewer than two replicas swapParams never gets to foreach (no
\* swap is in progress, no thread runs its lambda), and the step that
\* aborts leaves every replica buffer, every shard buffer and the scratch
\* buffers as they were, with no thread started.
C13_SwapAbortsFast ==
  /\ [](nGraphs < 2 =>
         /\ op.name # "swapParams"
         /\ \A n \in 1 .. Len(group) : group[n].fn # "swapParams")
  /\ [][fault' = "abort" =>
         /\ nGraphs < 2
         /\ group = << >>
         /\ UNCHANGED <<mem, tmpTensors_, params, group, hist>>]_vars

C13_Witness == fault = "abort" /\ nGraphs = 1 /\ total = MaxTotal

\* a node without its cached hash
Structure(nd) == [nd EXCEPT !.hash_ = 0]

\* C14: a->equal(b) returns true exactly when a and b have the same type,
\* the same children and the same members (for a shift node the pad value
\* too; for a masked pooling node the mask, the width and the evenness flag).
C14_EqualIsStructural ==
  out.fn = "equal" =>
    out.value = (Structure(nodes[out.of[1]]) = Structure(nodes[out.of[2]]))

\* what does hold of equal(): it is structural for every class but
\* ShiftNodeOp (padValue_ is not compared) and PoolingWithMaskingOp (no
\* equal() of its own)
EqualStructuralElsewhere ==
  (out.fn = "equal" /\ nodes[out.of[1]].type \notin {"shift", "layer_pooling"}) =>
    out.value = (Structure(nodes[out.of[1]]) = Structure(nodes[out.of[2]]))

\* C19: when a->equal(b) has returned true and both hashes have been
\* computed, a->hash() and b->hash() are the same.
C19_EqualNodesHashAlike ==
  (/\ out.fn = "equal"
   /\ out.value = TRUE
   /\ \A n \in {"a", "b"} : nodes[n].hash_ # 0) =>
     nodes[out.of[1]].hash_ = nodes[out.of[2]].hash_

\* what does hold of hash(): equal nodes of every class but ShiftNodeOp
\* have the same hash
HashAlikeElsewhere ==
  (/\ out.fn = "equal"
   /\ out.value = TRUE
   /\ nodes[out.of[1]].type # "shift"
   /\ \A n \in {"a", "b"} : nodes[n].hash_ # 0) =>
     nodes[out.of[1]].hash_ = nodes[out.of[2]].hash_

\* the stride of axis (counted from 0) in a row-major tensor of this shape
Stride(shape, axis) == Elements(SubSeq(shape, axis + 2, Len(shape)))

\* the elements of a row-major tensor whose index along axis is k
AxisSlice(shape, axis, k) ==
  {i \in 0 .. (Elements(shape) - 1) : (i \div Stride(shape, axis)) % shape[axis + 1] = k}

\* the elements of the child that a view covers
Covered(view) == view.off .. (view.off + view.len - 1)

\* C15: the view that step(A, k, axis) returns from val() and grad() starts
\* k * (elements of the view) * sizeof(float) bytes into A's memory and
\* covers exactly the elements of A whose index along axis is k; what has
\* been written through the gradient view is in those elements of A's
\* gradient and in no other.
C15_StepAliasesAxisIndex ==
  LET a == nodes["a"]
      slice == AxisSlice(nodes["x"].shape, a.axis_, a.step_)
  IN  out.fn \in {"val", "grad"} =>
        /\ out.value.off * SizeofFloat = a.step_ * Cardinality(slice) * SizeofFloat
        /\ Covered(out.value) = slice
        /\ \A i \in DOMAIN tensors[<<"grad", "x">>] :
             tensors[<<"grad", "x">>][i] # 0 => i \in slice

\* what does hold of the step view: it is the k-th run of consecutive
\* elements of the view's size, which is the slice when every axis before
\* axis_ has dimension 1 (the check that newShape leaves out)
StepAliasesLeadingAxis ==
  LET a == nodes["a"]
      shape == nodes["x"].shape
      slice == AxisSlice(shape, a.axis_, a.step_)
  IN  out.fn \in {"val", "grad"} =>
        /\ Covered(out.value) = (a.step_ * out.value.len) .. ((a.step_ + 1) * out.value.len - 1)
        /\ Covered(out.value) \subseteq DOMAIN tensors[out.value.buf]
        /\ (\A i \in 1 .. a.axis_ : shape[i] = 1) => Covered(out.value) = slice
        /\ \A i \in DOMAIN tensors[<<"grad", "x">>] :
             tensors[<<"grad", "x">>][i] # 0 => i \in Covered(out.value)

\* what one backward run of node n adds to element k of x's gradient, by
\* the rule of its class: the functor's value once for every child that is x
Contribution(n, k) ==
  Cardinality({i \in 1 .. Len(nodes[n].children) : nodes[n].children[i] = "x"})
    * Functor(nodes[n], tensors[<<"adj", n>>][k], tensors[<<"val", "x">>][k],
              tensors[<<"val", n>>][k])

RECURSIVE Contributions(_, _)
Contributions(ns, k) ==
  IF ns = << >> THEN 0 ELSE Contribution(Head(ns), k) + Contributions(Tail(ns), k)

\* x's gradient after a alone has run backward on the first gradient with
\* the sum of the adjoints of a and b as its adjoint
OnceWithSum ==
  LET m == [tensors EXCEPT
              ![<<"grad", "x">>] = out.value,
              ![<<"adj", "a">>] = [k \in DOMAIN @ |-> @[k] + tensors[<<"adj", "b">>][k]]]
  IN  BackwardOps(nodes, m, "a", 1)[<<"grad", "x">>]

C17_AxesBwInverts ==
  out.fn = "transpose" =>
    LET a == nodes["a"]
        r == Len(nodes["x"].shape)
    IN  /\ Len(a.axes_) = r /\ Len(a.axesBw_) = r
        /\ \A i \in 0 .. (r - 1) : a.axesBw_[a.axes_[i + 1] + 1] = i
        /\ \A j \in 0 .. (r - 1) : a.axes_[a.axesBw_[j + 1] + 1] = j
        /\ \A i \in 0 .. (r - 1) : a.shape[i + 1] = nodes["x"].shape[a.axes_[i + 1] + 1]
        /\ TransposeShape(a.shape, a.axesBw_) = nodes["x"].shape

C17_Witness ==
  /\ out.fn = "transpose"
  /\ nodes["a"].axes_ = <<1, 2, 0>>
  /\ nodes["x"].shape = <<1, 2, 3>>

\* the sum of the sizes of the scratch tensors before tensor i
RECURSIVE TmpPos(_)
TmpPos(i) == IF i = 0 THEN 0 ELSE TmpPos(i - 1) + tmpTensors_[i].len

\* foreach starts a thread in this step, and the thread it starts
Started == Len(group') = Len(group) + 1
Newest == group'[Len(group')]

\* C18, as claimed: the partition is the one derived on the first use,
\* when init() sized the scratch tensors: in every later call the threads
\* get the offsets and sizes of that partition, whatever the parameter
\* count has become, and the scratch tensors stay the same.
C18_PartitionCached ==
  /\ [][Started =>
         /\ Newest.size = tmpTensors_[Newest.idx + 1].len
         /\ Newest.pos = TmpPos(Newest.idx)]_vars
  /\ [][Len(tmpTensors_) > 0 => tmpTensors_' = tmpTensors_]_vars

\* C18, amended: only the scratch tensors are made once and kept; the
\* offsets and sizes are derived anew in every call of foreach from the
\* parameter count of that moment, so a changed count is picked up by the
\* partition and not by the scratch tensors.
C18_OnlyScratchCached ==
  /\ [][Started =>
         /\ Newest.size = ShardLen(total, nGraphs, Newest.idx)
         /\ Newest.pos = ShardPos(total, nGraphs, Newest.idx)]_vars
  /\ [][Len(tmpTensors_) > 0 => tmpTensors_' = tmpTensors_]_vars

C18_Witness ==
  /\ fe.pc = "join"
  /\ Len(hist) >= 1
  /\ nGraphs = 2
  /\ \A i \in Graphs : Thread(i).size > tmpTensors_[i + 1].len

\* C20: after any sequence of sized construction, Resize, Reshape, Clear,
\* swap and move construction, a matrix with allocated storage has
\* rows*cols <= arrSize_; Resize never reduces the capacity; and a growing
\* Resize copies only elements that lie inside the old allocation.
C20_CapacityBoundsSize ==
  /\ \A x \in Names : (~ matrix[x].data_.null) => size(matrix[x]) <= matrix[x].arrSize_
  /\ lastResize.of # "none" => lastResize.newCap >= lastResize.oldCap
  /\ lastResize.grew => lastResize.copied <= lastResize.oldAlloc

\* what the code does keep: arrSize_ is the size of the allocation, Resize
\* never reduces it, and a Resize that returns leaves rows*cols <= arrSize_
CapacityIsAllocation ==
  /\ \A x \in Names : matrix[x].arrSize_ = matrix[x].data_.size
  /\ lastResize.of # "none" => lastResize.newCap >= lastResize.oldCap
  /\ [][\A x \in Names, rows, cols \in Sides :
          Resize(x, rows, cols) /\ lastResize'.outcome = "done"
            => size(matrix'[x]) <= matrix'[x].arrSize_]_vars

\* a growing Resize ran its copy past the end of the old allocation
CopyOverran == lastResize.grew /\ lastResize.copied > lastResize.oldAlloc

====
